---- MODULE Spec2Model ----
(***************************************************************************)
(* Model of dbc2val/dbcfeederlib/dbc2vssmapper.py: one VSSMapping entry    *)
(* (the Send Gate condition_fulfilled and the Value Transformer            *)
(* transform_value) together with the transform validation of              *)
(* Mapper.verify_transform that decides which transforms an entry can      *)
(* hold; the load of a mapping file by Mapper.__init__ (traverse_vss_node, *)
(* analyze_signal) into Mapper.mapping, with the lookups on it; several    *)
(* Mapper objects in one process; and two threads inside                   *)
(* condition_fulfilled on one entry.                                       *)
(*                                                                         *)
(* Time is counted in whole milliseconds: the code keeps seconds as a      *)
(* float and compares (time - lastupdate_s) * 1000.0 with interval_ms; the *)
(* model's timestamps are that product's operands already scaled, so the   *)
(* comparison is the same one on integers (float rounding is not           *)
(* modelled).                                                              *)
(***************************************************************************)
EXTENDS Integers, Sequences, FiniteSets

(***************************************************************************)
(* Bounds of the model.                                                    *)
(***************************************************************************)
MaxTime == 3
MaxInterval == 2
MaxTableLen == 2

(***************************************************************************)
(* Python values (typing.Any): None, int, bool and str.  A str is named by *)
(* an index.  PyEq is Python's ==: bool is a subclass of int, so True == 1 *)
(* and False == 0, while no str and no None equals a number.               *)
(***************************************************************************)
None == [kind |-> "none", n |-> 0]

PyInt(i) == [kind |-> "int", n |-> i]

PyBool(b) == [kind |-> "bool", n |-> IF b THEN 1 ELSE 0]

PyStr(i) == [kind |-> "str", n |-> i]

IsNumber(v) == v.kind \in {"int", "bool"}

PyEq(a, b) == IF IsNumber(a) /\ IsNumber(b) THEN a.n = b.n ELSE a = b

PyNe(a, b) == ~PyEq(a, b)

\* Raw values an observation can carry, and the scalars among them.
Scalars == {PyInt(0), PyInt(1), PyBool(TRUE), PyStr(0)}

RawValues == Scalars \cup {None}

\* Timestamps an observation can carry (any order, also before 0).
Times == (0 - 1) .. MaxTime

\* interval_ms values an entry can hold: any Python int passes analyze_signal.
Intervals == (0 - 1) .. MaxInterval

(***************************************************************************)
(* The "transform" value of a dbc node, as JSON: absent, not a dict, or a  *)
(* dict that may hold "mapping" (a list of items, or not a list) and       *)
(* "math" (a str, or not a str).  A mapping item is a dict that may hold   *)
(* "from" and "to", or a str in which "from" and "to" may occur.           *)
(***************************************************************************)
Item(f, t) == [kind |-> "dict", has_from |-> TRUE, has_to |-> TRUE, from |-> f, to |-> t]

ItemNoTo(f) == [kind |-> "dict", has_from |-> TRUE, has_to |-> FALSE, from |-> f, to |-> None]

\* A str item such as "from_to": both words occur in it, it has no keys.
StrItem == [kind |-> "str", has_from |-> TRUE, has_to |-> TRUE, from |-> None, to |-> None]

NoTransform ==
    [kind |-> "absent", has_mapping |-> FALSE, mapping_is_list |-> FALSE,
     mapping |-> << >>, has_math |-> FALSE, math_is_str |-> FALSE, math |-> ""]

NotDict == [NoTransform EXCEPT !.kind = "notdict"]

EmptyDict == [NoTransform EXCEPT !.kind = "dict"]

MappingOf(items) ==
    [EmptyDict EXCEPT !.has_mapping = TRUE, !.mapping_is_list = TRUE, !.mapping = items]

MappingNotList == [EmptyDict EXCEPT !.has_mapping = TRUE]

MathOf(expr) == [EmptyDict EXCEPT !.has_math = TRUE, !.math_is_str = TRUE, !.math = expr]

MathNotStr == [EmptyDict EXCEPT !.has_math = TRUE]

\* Expressions given to the parser: two that parse and one that does not.
Exprs == {"x", "abs(x)", "x +"}

FromValues == {PyInt(0), PyInt(1), PyStr(0)}

ToValues == {PyInt(0), PyInt(1), PyBool(FALSE), None}

Items == {Item(f, t) : f \in FromValues, t \in ToValues}

RECURSIVE SeqsUpTo(_, _)
SeqsUpTo(S, k) ==
    IF k = 0 THEN {<< >>}
    ELSE LET shorter == SeqsUpTo(S, k - 1)
         IN  shorter \cup {Append(s, x) : s \in {q \in shorter : Len(q) = k - 1}, x \in S}

Tables == SeqsUpTo(Items, MaxTableLen)

TransformNodes ==
    {NoTransform, NotDict, EmptyDict, MappingNotList, MathNotStr}
    \cup {MappingOf(t) : t \in Tables}
    \cup {MappingOf(<<StrItem>>), MappingOf(<<ItemNoTo(PyInt(0))>>),
          MappingOf(<<Item(PyInt(1), PyInt(0)), StrItem>>)}
    \cup {MathOf(e) : e \in Exprs}
    \cup {[MappingOf(<<Item(PyInt(0), PyInt(1))>>) EXCEPT
             !.has_math = TRUE, !.math_is_str = s, !.math = "x"] : s \in BOOLEAN}

(***************************************************************************)
(* Mapper.verify_transform: TRUE when the load exits (sys.exit(-1)).       *)
(***************************************************************************)
\* Faulty variant: lines 185-187 (both mapping and math) left out.
verify_transform_exits_NoBothCheck(t) ==
    IF t.kind = "absent" THEN FALSE
    ELSE IF t.kind # "dict" THEN TRUE
    ELSE IF t.has_mapping /\ ~t.mapping_is_list THEN TRUE
    ELSE IF t.has_mapping
            /\ \E i \in 1 .. Len(t.mapping) :
                 ~(t.mapping[i].has_from /\ t.mapping[i].has_to) THEN TRUE
    ELSE IF t.has_math /\ ~t.math_is_str THEN TRUE
    ELSE FALSE

verify_transform_exits(t) ==
    IF t.kind = "absent" THEN FALSE
    ELSE IF t.kind # "dict" THEN TRUE
    ELSE IF t.has_mapping /\ ~t.mapping_is_list THEN TRUE
    ELSE IF t.has_mapping
            /\ \E i \in 1 .. Len(t.mapping) :
                 ~(t.mapping[i].has_from /\ t.mapping[i].has_to) THEN TRUE
    ELSE IF t.has_math /\ t.has_mapping THEN TRUE
    ELSE IF t.has_math /\ ~t.math_is_str THEN TRUE
    ELSE FALSE

\* The transforms a constructed entry can hold: those verify_transform returns.
VerifiedTransforms == {t \in TransformNodes : ~verify_transform_exits(t)}

(***************************************************************************)
(* State: the fields of one VSSMapping, the latest call made on it with    *)
(* what it returned, and a record of the calls so far (h_...).             *)
(***************************************************************************)
VARIABLES
    transform,        \* self.transform (NoTransform models None)
    interval_ms,      \* self.interval_ms
    on_change,        \* self.on_change
    lastupdate_s,     \* self.lastupdate_s, in milliseconds
    last_raw_value,   \* self.last_raw_value
    call,             \* the latest call: operation, arguments, outcome
    h_calls,          \* condition_fulfilled calls made on the entry: 0, 1, or 2 for two and more
    h_prev_time,      \* timestamp of the latest condition_fulfilled call
    h_ordered,        \* no condition_fulfilled call came with an earlier timestamp than the one before it
    h_nonneg,         \* no condition_fulfilled call came with a timestamp below 0
    h_nonnull,        \* no condition_fulfilled call came with the raw value None
    h_last_admit,     \* the most recently admitted observation, if any
    mapping,          \* Mapper.mapping, the class attribute: dbc signal name -> list of entries
    mappers,          \* the Mapper objects constructed so far, each with the tree it loaded
    proc,             \* the process: "running", "exit" after sys.exit(-1), "crash" after an uncaught exception
    look,             \* the latest call on a Mapper object: operation, arguments, outcome
    workers           \* the threads inside condition_fulfilled on the entry: position and locals

vars ==
    <<transform, interval_ms, on_change, lastupdate_s, last_raw_value, call,
      h_calls, h_prev_time, h_ordered, h_nonneg, h_nonnull, h_last_admit,
      mapping, mappers, proc, look, workers>>

config == <<transform, interval_ms, on_change>>

gate == <<lastupdate_s, last_raw_value>>

history == <<h_calls, h_prev_time, h_ordered, h_nonneg, h_nonnull, h_last_admit>>

registry == <<mapping, mappers, proc, look>>

NoCall ==
    [op |-> "init", time |-> 0, value |-> None, ret |-> FALSE,
     out |-> None, raised |-> FALSE]

NoAdmit == [set |-> FALSE, time |-> 0, value |-> None]

(***************************************************************************)
(* VSSMapping.condition_fulfilled, lines 72-85: the value of do_send.      *)
(***************************************************************************)
\* Faulty variant: lines 83-85 (the first-sample bypass) left out.
do_send_NoFirstBypass(interval, onchange, lastupdate, lastraw, time, value) ==
    LET timed == ~(interval > 0 /\ (time - lastupdate) < interval)
    IN  IF timed /\ onchange THEN PyNe(lastraw, value) ELSE timed

\* Faulty variant: line 76 with <= for <.
do_send_IntervalStrict(interval, onchange, lastupdate, lastraw, time, value) ==
    LET timed == ~(interval > 0 /\ (time - lastupdate) <= interval)
        changed == IF timed /\ onchange THEN PyNe(lastraw, value) ELSE timed
    IN  IF ~changed /\ lastraw = None THEN TRUE ELSE changed

\* Faulty variant: line 81 comparing by identity and type, not by !=.
do_send_Identity(interval, onchange, lastupdate, lastraw, time, value) ==
    LET timed == ~(interval > 0 /\ (time - lastupdate) < interval)
        changed == IF timed /\ onchange THEN lastraw # value ELSE timed
    IN  IF ~changed /\ lastraw = None THEN TRUE ELSE changed

\* Faulty variant: a changed value admits whatever the interval says.
do_send_Or(interval, onchange, lastupdate, lastraw, time, value) ==
    LET timed == ~(interval > 0 /\ (time - lastupdate) < interval)
        changed == IF onchange THEN timed \/ PyNe(lastraw, value) ELSE timed
    IN  IF ~changed /\ lastraw = None THEN TRUE ELSE changed

do_send(interval, onchange, lastupdate, lastraw, time, value) ==
    LET timed == ~(interval > 0 /\ (time - lastupdate) < interval)
        changed == IF timed /\ onchange THEN PyNe(lastraw, value) ELSE timed
    IN  IF ~changed /\ lastraw = None THEN TRUE ELSE changed

(***************************************************************************)
(* VSSMapping.condition_fulfilled, lines 87-89: the fields after the call. *)
(***************************************************************************)
\* Faulty variant: line 88 outside the if of line 87.
next_lastupdate_Always(send, time, lastupdate) == time

\* Faulty variant: a rejected call resets the reference time.
next_lastupdate_Reset(send, time, lastupdate) == IF send THEN time ELSE 0

next_lastupdate(send, time, lastupdate) == IF send THEN time ELSE lastupdate

next_last_raw_value(send, value, lastraw) == IF send THEN value ELSE lastraw

(***************************************************************************)
(* VSSMapping.parser.parse(tmp).evaluate({"x": value}), line 117: the      *)
(* expression evaluator, on the expressions of Exprs.  "x" gives the value *)
(* bound to x; abs() takes a number and raises on a str and on None; "x +" *)
(* does not parse.  ok = FALSE is an exception.                            *)
(***************************************************************************)
Abs(i) == IF i < 0 THEN 0 - i ELSE i

math_evaluate(expr, value) ==
    IF expr = "x" THEN [ok |-> TRUE, val |-> value]
    ELSE IF expr = "abs(x)" /\ IsNumber(value)
         THEN [ok |-> TRUE, val |-> PyInt(Abs(value.n))]
    ELSE [ok |-> FALSE, val |-> None]

(***************************************************************************)
(* VSSMapping.transform_value, lines 108-113: the scan of the mapping      *)
(* list.  item["from"] on an item that is no dict raises.                  *)
(***************************************************************************)
\* Faulty variant: no break at line 113, the last matching item wins.
RECURSIVE mapping_scan_Last(_, _)
mapping_scan_Last(items, value) ==
    IF items = << >> THEN [raised |-> FALSE, out |-> None]
    ELSE LET item == items[Len(items)]
         IN  IF item.kind # "dict" THEN [raised |-> TRUE, out |-> None]
             ELSE IF PyEq(item.from, value) THEN [raised |-> FALSE, out |-> item.to]
             ELSE mapping_scan_Last(SubSeq(items, 1, Len(items) - 1), value)

RECURSIVE mapping_scan(_, _)
mapping_scan(items, value) ==
    IF items = << >> THEN [raised |-> FALSE, out |-> None]
    ELSE LET item == Head(items)
         IN  IF item.kind # "dict" THEN [raised |-> TRUE, out |-> None]
             ELSE IF PyEq(item.from, value) THEN [raised |-> FALSE, out |-> item.to]
             ELSE mapping_scan(Tail(items), value)

(***************************************************************************)
(* VSSMapping.transform_value, lines 98-130: what the call returns, or     *)
(* that it raised.  self.transform["math"] on a dict without "math" raises *)
(* KeyError outside the try; an exception of the evaluator is caught.      *)
(***************************************************************************)
\* Faulty variant: a falsy result (0, False) taken for None.
transform_result_Falsy(tr, value) ==
    LET r == IF tr.kind = "absent" THEN [raised |-> FALSE, out |-> value]
             ELSE IF tr.has_mapping THEN mapping_scan(tr.mapping, value)
             ELSE IF ~tr.has_math THEN [raised |-> TRUE, out |-> None]
             ELSE [raised |-> FALSE, out |-> math_evaluate(tr.math, value).val]
    IN  IF IsNumber(r.out) /\ r.out.n = 0 THEN [r EXCEPT !.out = None] ELSE r

transform_result(tr, value) ==
    IF tr.kind = "absent" THEN [raised |-> FALSE, out |-> value]
    ELSE IF tr.has_mapping THEN mapping_scan(tr.mapping, value)
    ELSE IF ~tr.has_math THEN [raised |-> TRUE, out |-> None]
    ELSE LET e == math_evaluate(tr.math, value)
         IN  [raised |-> FALSE, out |-> IF e.ok THEN e.val ELSE None]

(***************************************************************************)
(* Program constants: the default intervals of Mapper.analyze_signal.      *)
(***************************************************************************)
DefaultIntervalOnChange == 0
DefaultInterval == 1000

\* The transforms of the entries the gate is exercised on.
GateTransforms ==
    {NoTransform, MathOf("abs(x)"), MappingOf(<<Item(PyInt(1), PyInt(0))>>)}

(***************************************************************************)
(* The process before any Mapper is constructed: Mapper.mapping is the     *)
(* empty dict of line 140, and no call has been made on a Mapper.          *)
(***************************************************************************)
NoLook ==
    [op |-> "init", mapper |-> 0, name |-> "", raised |-> FALSE, found |-> FALSE,
     list |-> << >>]

EmptyRegistry ==
    /\ mapping = << >>
    /\ mappers = << >>
    /\ proc = "running"
    /\ look = NoLook

(***************************************************************************)
(* The threads that call condition_fulfilled on the entry: none is inside  *)
(* the method.                                                             *)
(***************************************************************************)
Workers == {"w1", "w2"}

IdleWorker ==
    [pc |-> "idle", time |-> 0, value |-> None, do_send |-> FALSE, returned |-> FALSE]

NoWorkers == workers = [w \in Workers |-> IdleWorker]

(***************************************************************************)
(* VSSMapping.__init__, lines 55-65: a fresh entry.                        *)
(***************************************************************************)
Fresh ==
    /\ lastupdate_s = 0
    /\ last_raw_value = None
    /\ call = NoCall
    /\ h_calls = 0
    /\ h_prev_time = 0
    /\ h_ordered = TRUE
    /\ h_nonneg = TRUE
    /\ h_nonnull = TRUE
    /\ h_last_admit = NoAdmit

Init ==
    /\ transform \in GateTransforms \cap VerifiedTransforms
    /\ interval_ms \in Intervals
    /\ on_change \in BOOLEAN
    /\ Fresh
    /\ EmptyRegistry
    /\ NoWorkers

\* An entry of any verified transform, with the default interval of its on_change.
InitTransform ==
    /\ transform \in VerifiedTransforms
    /\ on_change \in BOOLEAN
    /\ interval_ms = IF on_change THEN DefaultIntervalOnChange ELSE DefaultInterval
    /\ Fresh
    /\ EmptyRegistry
    /\ NoWorkers

(***************************************************************************)
(* VSSMapping.condition_fulfilled(time, value), lines 67-91.               *)
(***************************************************************************)
condition_fulfilled(time, value) ==
    LET send == do_send(interval_ms, on_change, lastupdate_s, last_raw_value, time, value)
    IN  /\ lastupdate_s' = next_lastupdate(send, time, lastupdate_s)
        /\ last_raw_value' = next_last_raw_value(send, value, last_raw_value)
        /\ call' = [NoCall EXCEPT !.op = "condition_fulfilled", !.time = time,
                                  !.value = value, !.ret = send]
        /\ h_calls' = IF h_calls = 0 THEN 1 ELSE 2
        /\ h_prev_time' = time
        /\ h_ordered' = (h_ordered /\ (h_calls > 0 => time >= h_prev_time))
        /\ h_nonneg' = (h_nonneg /\ time >= 0)
        /\ h_nonnull' = (h_nonnull /\ value # None)
        /\ h_last_admit' = IF send THEN [set |-> TRUE, time |-> time, value |-> value]
                           ELSE h_last_admit
        /\ UNCHANGED <<config, registry, workers>>

(***************************************************************************)
(* VSSMapping.transform_value(value), lines 93-130.                        *)
(***************************************************************************)
\* Faulty variant: a transformation without value clears last_raw_value.
transform_value_Forgets(value) ==
    LET r == transform_result(transform, value)
    IN  /\ call' = [NoCall EXCEPT !.op = "transform_value", !.value = value,
                                  !.out = r.out, !.raised = r.raised]
        /\ last_raw_value' = IF r.out = None THEN None ELSE last_raw_value
        /\ UNCHANGED <<config, lastupdate_s, history, registry, workers>>

transform_value(value) ==
    LET r == transform_result(transform, value)
    IN  /\ call' = [NoCall EXCEPT !.op = "transform_value", !.value = value,
                                  !.out = r.out, !.raised = r.raised]
        /\ UNCHANGED <<config, gate, history, registry, workers>>

Next ==
    \/ \E time \in Times, value \in RawValues : condition_fulfilled(time, value)
    \/ \E value \in RawValues : transform_value(value)

Spec == Init /\ [][Next]_vars

NextTransform == \E value \in RawValues : transform_value(value)

SpecTransform == InitTransform /\ [][NextTransform]_vars

(***************************************************************************)
(* The mapping file as json.load returns it: a tree of dicts.  A node is a *)
(* dict with its "type" ("absent" when it has none), its "dbc" if any,     *)
(* whether it has "datatype" and "description", and its kids: for a        *)
(* branch the items of node["children"], for any other dict its items that *)
(* are dicts themselves.  The i-th item of a dict has the key Names[i].    *)
(***************************************************************************)
MaxNodes == 3

Names == <<"A", "B", "C", "D", "E">>

LeafTypes == {"sensor", "actuator", "attribute"}

\* dbc signal names: two that the files bind and one that no file binds.
Signals == {"S1", "S2"}

UnboundSignal == "S3"

\* A "dbc" dict: its "transform", "signal", "on_change" and "interval_ms".
DbcOf(tr, has_signal, signal, has_on_change, onchange, has_interval, interval) ==
    [transform |-> tr, has_signal |-> has_signal, signal |-> signal,
     has_on_change |-> has_on_change, on_change |-> onchange,
     has_interval_ms |-> has_interval, interval_ms |-> interval]

\* "dbc": {"signal": signal}
DbcSignal(signal) == DbcOf(NoTransform, TRUE, signal, FALSE, None, FALSE, None)

NodeOf(type, has_dbc, dbc, has_meta, kids) ==
    [type |-> type, has_dbc |-> has_dbc, dbc |-> dbc, has_meta |-> has_meta,
     kids |-> kids]

\* Nodes without kids: a branch, a dict without "type", a dict of a type the
\* walker does not know, and signals without and with "dbc".
Heads ==
    {NodeOf(t, FALSE, DbcSignal(""), TRUE, << >>) : t \in {"branch", "absent", "struct", "actuator"}}
    \cup {NodeOf("sensor", TRUE, DbcSignal("S1"), TRUE, << >>),
          NodeOf("attribute", TRUE, DbcSignal("S2"), TRUE, << >>)}

\* sized[k + 1] holds the sequences of trees that have k nodes in all, for
\* every k below Len(sized); MoreForests(sized) holds those of Len(sized) nodes.
MoreForests(sized) ==
    LET n == Len(sized)
    IN  UNION {{<<[h EXCEPT !.kids = kids]>> \o rest :
                   h \in Heads, kids \in sized[k], rest \in sized[n - k + 1]} :
               k \in 1 .. n}

RECURSIVE ForestsUpTo(_, _)
ForestsUpTo(sized, n) ==
    IF Len(sized) > n THEN UNION {sized[k] : k \in 1 .. Len(sized)}
    ELSE ForestsUpTo(Append(sized, MoreForests(sized)), n)

\* A file: the top-level dict, which has no "type".
FileOf(kids) == NodeOf("absent", FALSE, DbcSignal(""), TRUE, kids)

ShapeFiles == {FileOf(f) : f \in ForestsUpTo(<<{<< >>}>>, MaxNodes)}

\* Values of "on_change" and "interval_ms" in a file.
OnChangeValues == {PyBool(TRUE), PyBool(FALSE), PyInt(1)}

IntervalValues == {PyInt(0 - 1), PyInt(0), PyInt(2), PyBool(TRUE), PyStr(0)}

\* Dicts that hold both "mapping" and "math", whatever the two values are.
BothNodes ==
    {[t EXCEPT !.has_math = TRUE, !.math_is_str = s, !.math = IF s THEN "x" ELSE ""] :
        t \in {MappingNotList, MappingOf(<< >>), MappingOf(<<StrItem>>),
                MappingOf(<<Item(PyInt(0), PyInt(1))>>)},
        s \in BOOLEAN}

LoadTransforms == {t \in TransformNodes : Len(t.mapping) <= 1} \cup BothNodes

DbcNodes ==
    {DbcOf(tr, hs, IF hs THEN sig ELSE "", hc, IF hc THEN oc ELSE None,
           hi, IF hi THEN iv ELSE None) :
        tr \in LoadTransforms, hs \in BOOLEAN, sig \in {"", "S1"},
        hc \in BOOLEAN, oc \in OnChangeValues,
        hi \in BOOLEAN, iv \in IntervalValues}

\* Files of two signals: "A" bound to S1 by name only, "B" with any "dbc".
DbcFiles ==
    {FileOf(<<NodeOf("sensor", TRUE, DbcSignal("S1"), TRUE, << >>),
              NodeOf("sensor", TRUE, d, m, << >>)>>) : d \in DbcNodes, m \in BOOLEAN}

Files == ShapeFiles \cup DbcFiles

(***************************************************************************)
(* Mapper.mapping, a dict in insertion order: a sequence of keys with      *)
(* their lists.                                                            *)
(***************************************************************************)
HasKey(m, key) == \E i \in 1 .. Len(m) : m[i].key = key

ListOf(m, key) == m[CHOOSE i \in 1 .. Len(m) : m[i].key = key].list

\* lines 228-230
append_entry(m, key, entry) ==
    IF HasKey(m, key)
    THEN [i \in 1 .. Len(m) |->
             IF m[i].key = key THEN [m[i] EXCEPT !.list = Append(@, entry)] ELSE m[i]]
    ELSE Append(m, [key |-> key, list |-> <<entry>>])

(***************************************************************************)
(* Mapper.analyze_signal(expanded_name, node), lines 193-230, on the state *)
(* st of a load: the registry, and "exit" or "crash" once the load ended.  *)
(* isinstance(x, int) holds of a bool as well.                             *)
(***************************************************************************)
\* Faulty variant: the default interval does not depend on on_change.
default_interval_Fixed(onchange) == PyInt(DefaultInterval)

\* lines 219-225
default_interval(onchange) ==
    IF onchange THEN PyInt(DefaultIntervalOnChange) ELSE PyInt(DefaultInterval)

\* lines 55-65
VSSMapping(vss_name, tr, interval, onchange, owner) ==
    [vss_name |-> vss_name, transform |-> tr, interval_ms |-> interval,
     on_change |-> onchange, lastupdate_s |-> 0, last_raw_value |-> None,
     owner |-> owner]

analyze_signal(expanded_name, node, st) ==
    IF ~node.has_dbc THEN st
    ELSE LET dbc_def == node.dbc
             dbc_name == IF dbc_def.has_signal THEN dbc_def.signal ELSE ""
             onchange == dbc_def.has_on_change /\ dbc_def.on_change = PyBool(TRUE)
             interval == IF dbc_def.has_interval_ms THEN dbc_def.interval_ms
                         ELSE default_interval(onchange)
         IN  IF verify_transform_exits(dbc_def.transform)
                THEN [st EXCEPT !.status = "exit"]
             ELSE IF dbc_name = ""
                THEN [st EXCEPT !.status = "exit"]
             ELSE IF dbc_def.has_on_change /\ dbc_def.on_change.kind # "bool"
                THEN [st EXCEPT !.status = "exit"]
             ELSE IF dbc_def.has_interval_ms /\ ~IsNumber(dbc_def.interval_ms)
                THEN [st EXCEPT !.status = "exit"]
             ELSE IF ~node.has_meta
                THEN [st EXCEPT !.status = "crash"]
             ELSE [st EXCEPT !.mapping =
                      append_entry(@, dbc_name,
                                   VSSMapping(expanded_name, dbc_def.transform, interval,
                                              onchange, st.owner))]

(***************************************************************************)
(* Mapper.traverse_vss_node(name, node, prefix), lines 232-257.  A name is *)
(* a sequence of the strings it is concatenated from.                      *)
(***************************************************************************)
\* Faulty variant: every dict that is walked adds its name to the prefix.
next_prefix_Always(type, prefix, name) == prefix \o <<name, ".">>

\* lines 244-246
next_prefix(type, prefix, name) ==
    IF type = "branch" THEN prefix \o <<name, ".">> ELSE prefix

RECURSIVE traverse_vss_node(_, _, _, _)
RECURSIVE traverse_items(_, _, _, _)
\* lines 250-251 and 256-257: the loop, ended by sys.exit or an exception
traverse_items(items, i, prefix, st) ==
    IF i > Len(items) \/ st.status # "ok" THEN st
    ELSE traverse_items(items, i + 1, prefix,
                        traverse_vss_node(Names[i], items[i], prefix, st))

traverse_vss_node(name, node, prefix, st) ==
    IF node.type = "branch"
        THEN traverse_items(node.kids, 1, next_prefix(node.type, prefix, name), st)
    ELSE IF node.type \in LeafTypes
        THEN analyze_signal(prefix \o <<name>>, node, st)
    ELSE traverse_items(node.kids, 1, next_prefix(node.type, prefix, name), st)

(***************************************************************************)
(* Mapper.__init__(filename), lines 270-279: the file is walked into       *)
(* self.mapping, which is the class attribute of line 140.                 *)
(***************************************************************************)
Mapper_init(file) ==
    LET st == traverse_vss_node("", file, << >>,
                                [mapping |-> mapping, status |-> "ok",
                                 owner |-> Len(mappers) + 1])
    IN  /\ proc = "running"
        /\ mapping' = st.mapping
        /\ mappers' = Append(mappers, [file |-> file, loaded |-> st.status = "ok"])
        /\ proc' = IF st.status = "ok" THEN "running" ELSE st.status
        /\ look' = NoLook
        /\ UNCHANGED <<config, gate, call, history, workers>>

\* Mapper.__getitem__(item), lines 289-290: KeyError for a key not in the dict.
Mapper_getitem(m, name) ==
    /\ proc = "running"
    /\ m \in 1 .. Len(mappers)
    /\ mappers[m].loaded
    /\ look' = [op |-> "getitem", mapper |-> m, name |-> name,
                raised |-> ~HasKey(mapping, name), found |-> HasKey(mapping, name),
                list |-> IF HasKey(mapping, name) THEN ListOf(mapping, name) ELSE << >>]
    /\ UNCHANGED <<config, gate, call, history, mapping, mappers, proc, workers>>

\* Mapper.__contains__(key), lines 286-287.
Mapper_contains(m, name) ==
    /\ proc = "running"
    /\ m \in 1 .. Len(mappers)
    /\ mappers[m].loaded
    /\ look' = [op |-> "contains", mapper |-> m, name |-> name, raised |-> FALSE,
                found |-> HasKey(mapping, name), list |-> << >>]
    /\ UNCHANGED <<config, gate, call, history, mapping, mappers, proc, workers>>

\* The state of the one-entry variables while the registry is exercised.
InitEntry ==
    /\ transform = NoTransform
    /\ interval_ms = DefaultInterval
    /\ on_change = FALSE
    /\ Fresh

InitLoad == InitEntry /\ EmptyRegistry /\ NoWorkers

\* One Mapper is constructed from a file, then asked for signal names.
NextLoad ==
    \/ mappers = << >> /\ \E file \in Files : Mapper_init(file)
    \/ \E name \in Signals \cup {UnboundSignal} : Mapper_getitem(1, name)
    \/ \E name \in Signals \cup {UnboundSignal} : Mapper_contains(1, name)

SpecLoad == InitLoad /\ [][NextLoad]_vars

(***************************************************************************)
(* Several Mapper objects in one process, as when the two test modules are *)
(* imported together: each is constructed from its own file, and           *)
(* condition_fulfilled is called on the entries a Mapper returns.          *)
(***************************************************************************)
MaxMappers == 2

\* Files of no signal or of one signal, bound to S1 or to S2.
SmallFiles ==
    {f \in ShapeFiles :
        /\ Len(f.kids) <= 1
        /\ \A i \in 1 .. Len(f.kids) : f.kids[i].has_dbc /\ f.kids[i].kids = << >>}

\* VSSMapping.condition_fulfilled(time, value), lines 67-91, on the j-th entry
\* of the i-th key of the registry.
Entry_condition_fulfilled(i, j, time, value) ==
    /\ proc = "running"
    /\ i \in 1 .. Len(mapping)
    /\ j \in 1 .. Len(mapping[i].list)
    /\ LET e == mapping[i].list[j]
           send == do_send(e.interval_ms.n, e.on_change, e.lastupdate_s,
                           e.last_raw_value, time, value)
       IN  /\ mapping' = [mapping EXCEPT
                            ![i].list[j].lastupdate_s = next_lastupdate(send, time, @),
                            ![i].list[j].last_raw_value = next_last_raw_value(send, value, @)]
           /\ look' = [NoLook EXCEPT !.op = "condition_fulfilled",
                                     !.name = mapping[i].key, !.found = send]
    /\ UNCHANGED <<config, gate, call, history, mappers, proc, workers>>

NextMappers ==
    \/ Len(mappers) < MaxMappers /\ \E file \in SmallFiles : Mapper_init(file)
    \/ \E m \in 1 .. MaxMappers, name \in Signals \cup {UnboundSignal} :
          Mapper_getitem(m, name)
    \/ \E m \in 1 .. MaxMappers, name \in Signals \cup {UnboundSignal} :
          Mapper_contains(m, name)
    \/ \E i, j \in 1 .. MaxMappers, time \in 0 .. MaxTime :
          Entry_condition_fulfilled(i, j, time, PyInt(1))

SpecMappers == InitLoad /\ [][NextMappers]_vars

(***************************************************************************)
(* VSSMapping.condition_fulfilled, lines 67-91, called on one entry by the *)
(* threads of Workers, one call each.  The method takes no lock, so a      *)
(* thread may be switched between any two of its statements: each step     *)
(* below is one statement, with at most one access to a field of the       *)
(* entry that another call writes.                                         *)
(***************************************************************************)
\* Raw values the threads submit.
WorkerValues == {PyInt(0), PyInt(1)}

\* A fresh entry without transform, of any interval and on_change.
InitWorkers ==
    /\ transform = NoTransform
    /\ interval_ms \in 0 .. MaxInterval
    /\ on_change \in BOOLEAN
    /\ Fresh
    /\ EmptyRegistry
    /\ NoWorkers

\* A first observation is made and admitted before the threads start.
condition_fulfilled_before(value) ==
    /\ \A w \in Workers : workers[w].pc = "idle"
    /\ ~h_last_admit.set
    /\ condition_fulfilled(0, value)

\* line 72: the call, and do_send = True
condition_fulfilled_72(w, time, value) ==
    /\ workers[w].pc = "idle"
    /\ workers' = [workers EXCEPT ![w] = [pc |-> "74", time |-> time, value |-> value,
                                          do_send |-> TRUE, returned |-> FALSE]]
    /\ UNCHANGED <<config, gate, call, history, registry>>

\* lines 74-78
condition_fulfilled_74(w) ==
    /\ workers[w].pc = "74"
    /\ workers' = [workers EXCEPT
                     ![w].pc = "80",
                     ![w].do_send = ~(/\ interval_ms > 0
                                      /\ (workers[w].time - lastupdate_s) < interval_ms)]
    /\ UNCHANGED <<config, gate, call, history, registry>>

\* lines 80-81
condition_fulfilled_80(w) ==
    /\ workers[w].pc = "80"
    /\ workers' = [workers EXCEPT
                     ![w].pc = "83",
                     ![w].do_send = IF workers[w].do_send /\ on_change
                                    THEN PyNe(last_raw_value, workers[w].value)
                                    ELSE workers[w].do_send]
    /\ UNCHANGED <<config, gate, call, history, registry>>

\* lines 83-85
condition_fulfilled_83(w) ==
    /\ workers[w].pc = "83"
    /\ workers' = [workers EXCEPT
                     ![w].pc = "87",
                     ![w].do_send = IF ~workers[w].do_send /\ last_raw_value = None
                                    THEN TRUE ELSE workers[w].do_send]
    /\ UNCHANGED <<config, gate, call, history, registry>>

\* lines 87-88
condition_fulfilled_87(w) ==
    /\ workers[w].pc = "87"
    /\ workers' = [workers EXCEPT ![w].pc = IF workers[w].do_send THEN "89" ELSE "91"]
    /\ lastupdate_s' = IF workers[w].do_send THEN workers[w].time ELSE lastupdate_s
    /\ UNCHANGED <<config, last_raw_value, call, history, registry>>

\* line 89
condition_fulfilled_89(w) ==
    /\ workers[w].pc = "89"
    /\ workers' = [workers EXCEPT ![w].pc = "91"]
    /\ last_raw_value' = workers[w].value
    /\ UNCHANGED <<config, lastupdate_s, call, history, registry>>

\* line 91
condition_fulfilled_91(w) ==
    /\ workers[w].pc = "91"
    /\ workers' = [workers EXCEPT ![w].pc = "done", ![w].returned = TRUE]
    /\ UNCHANGED <<config, gate, call, history, registry>>

NextWorkers ==
    \/ \E value \in WorkerValues : condition_fulfilled_before(value)
    \/ \E w \in Workers, time \in 0 .. MaxTime, value \in WorkerValues :
          condition_fulfilled_72(w, time, value)
    \/ \E w \in Workers : condition_fulfilled_74(w)
    \/ \E w \in Workers : condition_fulfilled_80(w)
    \/ \E w \in Workers : condition_fulfilled_83(w)
    \/ \E w \in Workers : condition_fulfilled_87(w)
    \/ \E w \in Workers : condition_fulfilled_89(w)
    \/ \E w \in Workers : condition_fulfilled_91(w)

SpecWorkers == InitWorkers /\ [][NextWorkers]_vars

(***************************************************************************)
(* Properties of the Send Gate, over the behaviours of Spec.                *)
(*                                                                         *)
(* A step whose next state has call.op = "condition_fulfilled" is a        *)
(* condition_fulfilled step (transform_value sets call.op otherwise); in   *)
(* such a step the unprimed gate fields are the ones the call read.        *)
(***************************************************************************)
IsAdmitStep == call'.op = "condition_fulfilled"

\* The interval and on-change conditions of a call, on the fields it read.
ElapsedMs == call'.time - lastupdate_s

(***************************************************************************)
(* The returns of condition_fulfilled over a sequence of observations on   *)
(* one entry, as the tests call it: each call reads the fields the calls   *)
(* before it left.                                                         *)
(***************************************************************************)
RECURSIVE admit_run(_, _, _, _, _)
admit_run(interval, onchange, lastupdate, lastraw, obs) ==
    IF obs = << >> THEN << >>
    ELSE LET o == Head(obs)
             send == do_send(interval, onchange, lastupdate, lastraw, o.time, o.value)
         IN  <<send>> \o admit_run(interval, onchange,
                                   next_lastupdate(send, o.time, lastupdate),
                                   next_last_raw_value(send, o.value, lastraw),
                                   Tail(obs))

Obs(t, v) == [time |-> t, value |-> PyInt(v)]

\* C1: the first call to condition_fulfilled on a freshly created entry
\* returns TRUE, for every interval_ms and on_change and whatever the
\* timestamp and the raw value of that first observation are.
C1_FirstCallAdmits ==
    (h_calls = 1 /\ call.op = "condition_fulfilled") => call.ret

\* A first observation admitted on an entry with both conditions configured,
\* at a timestamp closer than interval_ms to the default lastupdate_s of 0.
C1_Witness ==
    /\ h_calls = 1
    /\ call.op = "condition_fulfilled"
    /\ call.ret
    /\ on_change
    /\ interval_ms > 0
    /\ call.time >= 0
    /\ call.time < interval_ms

\* C2: with interval_ms > 0 and on_change = FALSE, over calls with
\* non-decreasing timestamps and raw values other than None, every
\* observation after the first is admitted if and only if at least
\* interval_ms milliseconds have elapsed since the most recently admitted
\* observation (exactly interval_ms admits); so admitted observations are
\* at least interval_ms apart and a rejected one does not restart the
\* interval: interval 1000 and timestamps 10, 20, 1000, 1020, 1500, 2030
\* give TRUE, FALSE, FALSE, TRUE, FALSE, TRUE.
C2_IntervalGate ==
    /\ admit_run(1000, FALSE, 0, None,
                 <<Obs(10, 23), Obs(20, 23), Obs(1000, 23),
                   Obs(1020, 23), Obs(1500, 23), Obs(2030, 23)>>)
         = <<TRUE, FALSE, FALSE, TRUE, FALSE, TRUE>>
    /\ [][(/\ IsAdmitStep
           /\ interval_ms > 0
           /\ ~on_change
           /\ h_calls >= 1
           /\ h_ordered'
           /\ h_nonnull')
          => (/\ h_last_admit.set
              /\ call'.ret <=> (call'.time - h_last_admit.time >= interval_ms))]_vars

\* A later observation admitted by the interval alone.
C2_Witness ==
    /\ h_calls = 2
    /\ call.op = "condition_fulfilled"
    /\ call.ret
    /\ interval_ms > 0
    /\ ~on_change
    /\ h_ordered
    /\ h_nonnull
    /\ call.time >= interval_ms

C4_BothConditions ==
    [][IsAdmitStep
       => (/\ (last_raw_value # None /\ interval_ms >= 0)
                => (call'.ret <=> (/\ interval_ms = 0 \/ ElapsedMs >= interval_ms
                                   /\ ~on_change \/ PyNe(call'.value, last_raw_value)))
           /\ (interval_ms = 0 /\ ~on_change) => call'.ret)]_vars

\* A changed raw value rejected because the interval has not elapsed.
C4_Witness ==
    /\ interval_ms > 0
    /\ on_change
    /\ h_calls = 2
    /\ call.op = "condition_fulfilled"
    /\ ~call.ret
    /\ last_raw_value # None
    /\ PyNe(call.value, last_raw_value)
    /\ call.time >= lastupdate_s

\* C5: a condition_fulfilled call that returns FALSE leaves lastupdate_s and
\* last_raw_value unchanged, one that returns TRUE sets them to the call's
\* timestamp and raw value, and no other operation writes them.
C5_GateFrame ==
    [][IF IsAdmitStep
       THEN IF call'.ret
            THEN lastupdate_s' = call'.time /\ last_raw_value' = call'.value
            ELSE UNCHANGED gate
       ELSE UNCHANGED gate]_vars

\* A rejected observation whose timestamp and raw value both differ from
\* the kept reference time and value.
C5_Witness ==
    /\ call.op = "condition_fulfilled"
    /\ ~call.ret
    /\ call.time > lastupdate_s
    /\ call.value # last_raw_value

\* C6 as stated: for every sequence of calls, timestamps in any order,
\* lastupdate_s never decreases from one state to the next.
C6_NeverDecreases == [][lastupdate_s' >= lastupdate_s]_vars

\* C6 as amended: as long as the timestamps of the calls are not below 0 and
\* arrive in non-decreasing order, lastupdate_s never decreases, for any
\* interval_ms and on_change.
C6_NeverDecreasesInOrder ==
    [][(h_ordered' /\ h_nonneg') => lastupdate_s' >= lastupdate_s]_vars

\* A later observation admitted in order, moving lastupdate_s forward.
C6_Witness ==
    /\ h_calls = 2
    /\ h_ordered
    /\ h_nonneg
    /\ call.op = "condition_fulfilled"
    /\ call.ret
    /\ lastupdate_s = call.time
    /\ lastupdate_s > 0

\* C7: transform_value does not write the gate: once an observation is
\* admitted, lastupdate_s and last_raw_value hold its timestamp and raw
\* value whether its transformation gives a value, gives None or fails; so
\* with on_change a raw value whose transformation gave None still counts as
\* the last value, and a return to another raw value is admitted as a change
\* when the interval allows it.
C7_TransformKeepsGate ==
    [][/\ call'.op = "transform_value" => UNCHANGED gate
       /\ h_last_admit'.set => (/\ lastupdate_s' = h_last_admit'.time
                                /\ last_raw_value' = h_last_admit'.value)
       /\ (/\ call.op = "transform_value"
           /\ call.out = None
           /\ h_last_admit.set
           /\ h_last_admit.value = call.value
           /\ call.value # None
           /\ IsAdmitStep
           /\ on_change
           /\ ~(interval_ms > 0 /\ ElapsedMs < interval_ms)
           /\ PyNe(call'.value, call.value))
          => call'.ret]_vars

\* The transformation of the admitted observation gave None and the gate
\* still holds that observation.
C7_Witness ==
    /\ call.op = "transform_value"
    /\ call.out = None
    /\ call.value # None
    /\ h_last_admit.set
    /\ h_last_admit.value = call.value
    /\ last_raw_value = call.value
    /\ lastupdate_s = h_last_admit.time
    /\ on_change

(***************************************************************************)
(* Properties of the Value Transformer, over the behaviours of             *)
(* SpecTransform.                                                          *)
(***************************************************************************)
\* The list indexes of the mapping items whose "from" equals the raw value.
Matches(tr, value) ==
    {i \in 1 .. Len(tr.mapping) : PyEq(tr.mapping[i].from, value)}

Least(S) == CHOOSE i \in S : \A j \in S : i <= j

\* A lookup table as the data model has it: a list of {from, to} objects.
IsLookupTable(tr) ==
    /\ tr.kind = "dict"
    /\ tr.has_mapping
    /\ \A i \in 1 .. Len(tr.mapping) : tr.mapping[i].kind = "dict"

\* C8 as stated: for every transform that verify_transform accepts and every
\* raw value, transform_value returns a value or None and raises nothing.
C8_TransformNeverRaises ==
    call.op = "transform_value" => ~call.raised

\* C9: with a lookup table, if some item has "from" equal to the raw value
\* transform_value returns the "to" of the first such item in declared order
\* (one of the "to" values declared for that key), and None if no item has.
C9_LookupFirstMatch ==
    (call.op = "transform_value" /\ IsLookupTable(transform))
    => LET m == Matches(transform, call.value)
       IN  /\ ~call.raised
           /\ m = {} => call.out = None
           /\ m # {} => /\ call.out = transform.mapping[Least(m)].to
                        /\ call.out \in {transform.mapping[i].to : i \in m}

\* A raw value that two items map to different values: the first is returned.
C9_Witness ==
    /\ call.op = "transform_value"
    /\ IsLookupTable(transform)
    /\ \E i, j \in Matches(transform, call.value) :
         /\ i < j
         /\ transform.mapping[i].to # transform.mapping[j].to
         /\ call.out = transform.mapping[i].to

\* C10: None stands for no value and for nothing else: for a raw value that
\* is set and a table whose "to" values are set, transform_value returns
\* None only when the table has no item matching the raw value or the
\* expression evaluation failed; without a transform the result is the raw
\* value, for every raw value; and a "to" or an expression result that is 0
\* or False is returned as that value.
C10_NoValueDistinct ==
    (call.op = "transform_value" /\ ~call.raised)
    => /\ transform.kind = "absent" => call.out = call.value
       /\ (/\ call.out = None
           /\ call.value # None
           /\ \A i \in 1 .. Len(transform.mapping) : transform.mapping[i].to # None)
          => \/ transform.has_mapping /\ Matches(transform, call.value) = {}
             \/ /\ ~transform.has_mapping
                /\ transform.has_math
                /\ ~math_evaluate(transform.math, call.value).ok
       /\ (IsLookupTable(transform) /\ Matches(transform, call.value) # {})
          => LET to == transform.mapping[Least(Matches(transform, call.value))].to
             IN  (IsNumber(to) /\ to.n = 0) => (call.out = to /\ call.out # None)
       /\ (/\ transform.kind = "dict"
           /\ ~transform.has_mapping
           /\ transform.has_math
           /\ math_evaluate(transform.math, call.value).ok
           /\ math_evaluate(transform.math, call.value).val = PyInt(0))
          => call.out = PyInt(0)

\* A table item whose "to" is False matched, and False was returned.
C10_Witness ==
    /\ call.op = "transform_value"
    /\ IsLookupTable(transform)
    /\ Matches(transform, call.value) # {}
    /\ call.out = PyBool(FALSE)

\* C17: once condition_fulfilled has returned TRUE for an entry, lines 83-85
\* (the first-sample bypass) never apply to it again: every later call that
\* fails the interval condition or the on-change condition returns FALSE,
\* whatever raw value was admitted first, None included.
C17_UnseenLeftForGood ==
    [][(/\ h_last_admit.set
        /\ IsAdmitStep
        /\ \/ interval_ms > 0 /\ ElapsedMs < interval_ms
           \/ on_change /\ PyEq(last_raw_value, call'.value))
       => ~call'.ret]_vars

(***************************************************************************)
(* Properties of the load, over the behaviours of SpecLoad.                *)
(*                                                                         *)
(* A position in a file is the sequence of item indexes that leads from    *)
(* the top-level dict to a node.  The definitions below read the file      *)
(* itself, not the walk: which nodes are signals with "dbc", which of them *)
(* lie under no other signal, and the dotted name of each.                 *)
(***************************************************************************)
RECURSIVE PositionsUnder(_)
PositionsUnder(node) ==
    {<< >>} \cup UNION {{<<i>> \o q : q \in PositionsUnder(node.kids[i])} :
                         i \in 1 .. Len(node.kids)}

RECURSIVE NodeAt(_, _)
NodeAt(node, p) ==
    IF p = << >> THEN node ELSE NodeAt(node.kids[Head(p)], Tail(p))

IsBoundLeaf(file, p) ==
    /\ p # << >>
    /\ NodeAt(file, p).type \in LeafTypes
    /\ NodeAt(file, p).has_dbc

\* No node on the way to p, the top-level dict excluded, is a signal.
UnderNoLeaf(file, p) ==
    \A k \in 1 .. Len(p) - 1 : NodeAt(file, SubSeq(p, 1, k)).type \notin LeafTypes

BoundLeaves(file) ==
    {p \in PositionsUnder(file) : IsBoundLeaf(file, p) /\ UnderNoLeaf(file, p)}

\* The names of the branches above p, each followed by ".", then p's own name.
RECURSIVE BranchNames(_, _, _)
BranchNames(file, p, k) ==
    IF k >= Len(p) THEN << >>
    ELSE (IF NodeAt(file, SubSeq(p, 1, k)).type = "branch"
          THEN <<Names[p[k]], ".">> ELSE << >>) \o BranchNames(file, p, k + 1)

PathOf(file, p) == BranchNames(file, p, 1) \o <<Names[p[Len(p)]]>>

\* p comes before q in the order of the file.
Before(p, q) ==
    \/ Len(p) < Len(q) /\ p = SubSeq(q, 1, Len(p))
    \/ \E k \in 1 .. Len(p) :
          /\ k <= Len(q)
          /\ SubSeq(p, 1, k - 1) = SubSeq(q, 1, k - 1)
          /\ p[k] < q[k]

SignalOf(file, p) == NodeAt(file, p).dbc.signal

\* The bound leaves of a file that name one dbc signal, and the place of
\* each among them.
LeavesOf(file, signal) ==
    {p \in BoundLeaves(file) : NodeAt(file, p).dbc.has_signal /\ SignalOf(file, p) = signal}

Rank(file, signal, p) ==
    1 + Cardinality({q \in LeavesOf(file, signal) : Before(q, p)})

\* The entries of the registry, whatever key they are under.
Entries == UNION {{mapping[i].list[j] : j \in 1 .. Len(mapping[i].list)} : i \in 1 .. Len(mapping)}

HasBoth(tr) == tr.kind = "dict" /\ tr.has_mapping /\ tr.has_math

\* C11: a load of a file in which a signal's "dbc" has a "transform" with
\* both "mapping" and "math" ends in sys.exit(-1), whatever the other keys of
\* the "dbc" are and whether or not the "math" is a str, and no entry of
\* that signal's name is in the registry.
C11_BothAborts ==
    \A m \in 1 .. Len(mappers) :
        \A p \in BoundLeaves(mappers[m].file) :
            HasBoth(NodeAt(mappers[m].file, p).dbc.transform)
            => /\ ~mappers[m].loaded
               /\ proc = "exit"
               /\ \A e \in Entries : e.vss_name # PathOf(mappers[m].file, p)

\* A load ended by a "transform" whose "mapping" is a well-formed list and
\* whose "math" is not a str, in a "dbc" that is complete otherwise; the
\* signal before it was registered.
C11_Witness ==
    /\ Len(mappers) = 1
    /\ proc = "exit"
    /\ Len(mappers[1].file.kids) = 2
    /\ LET node == mappers[1].file.kids[2]
       IN  /\ node.has_dbc
           /\ node.has_meta
           /\ HasBoth(node.dbc.transform)
           /\ node.dbc.transform.mapping_is_list
           /\ Len(node.dbc.transform.mapping) = 1
           /\ node.dbc.transform.mapping[1].kind = "dict"
           /\ ~node.dbc.transform.math_is_str
           /\ node.dbc.has_signal /\ node.dbc.signal = "S1"
           /\ node.dbc.has_on_change /\ node.dbc.on_change = PyBool(TRUE)
           /\ node.dbc.has_interval_ms /\ node.dbc.interval_ms = PyInt(2)
    /\ Len(mapping) = 1
    /\ Len(mapping[1].list) = 1

\* C12: every entry in the registry after a load that completed has an
\* integer interval_ms that is not below 0, so a "dbc" whose "interval_ms"
\* is present and is not such an integer registers nothing.
C12_IntervalNotNegative ==
    (proc = "running" /\ \A m \in 1 .. Len(mappers) : mappers[m].loaded)
    => \A e \in Entries : IsNumber(e.interval_ms) /\ e.interval_ms.n >= 0

\* C13: the entry of a signal whose "dbc" has no "interval_ms" has
\* interval_ms 0 when its "on_change" is true and 1000 when it is false or
\* absent; the entry of a signal whose "dbc" has "interval_ms" has that
\* value, whatever "on_change" is.
C13_IntervalDefaults ==
    \A m \in 1 .. Len(mappers) :
        mappers[m].loaded
        => \A p \in BoundLeaves(mappers[m].file) :
              LET dbc == NodeAt(mappers[m].file, p).dbc
                  named == {e \in Entries : e.vss_name = PathOf(mappers[m].file, p)}
              IN  /\ named # {}
                  /\ \A e \in named :
                        /\ e.on_change = (dbc.has_on_change /\ dbc.on_change = PyBool(TRUE))
                        /\ dbc.has_interval_ms => e.interval_ms = dbc.interval_ms
                        /\ (~dbc.has_interval_ms /\ e.on_change)
                           => e.interval_ms = PyInt(0)
                        /\ (~dbc.has_interval_ms /\ ~e.on_change)
                           => e.interval_ms = PyInt(1000)

\* A signal with "on_change": true and no "interval_ms", registered with
\* interval 0 after a signal without "on_change" and "interval_ms",
\* registered with interval 1000.
C13_Witness ==
    /\ Len(mappers) = 1
    /\ mappers[1].loaded
    /\ Len(mappers[1].file.kids) = 2
    /\ mappers[1].file.kids[2].has_dbc
    /\ mappers[1].file.kids[2].dbc.has_on_change
    /\ mappers[1].file.kids[2].dbc.on_change = PyBool(TRUE)
    /\ ~mappers[1].file.kids[2].dbc.has_interval_ms
    /\ HasKey(mapping, "S1")
    /\ Len(ListOf(mapping, "S1")) = 2
    /\ ListOf(mapping, "S1")[1].interval_ms = PyInt(1000)
    /\ ListOf(mapping, "S1")[2].interval_ms = PyInt(0)

\* The list the registry is to hold for a dbc signal name after one load.
ListedInOrder(file, signal, list) ==
    /\ Len(list) = Cardinality(LeavesOf(file, signal))
    /\ \A p \in LeavesOf(file, signal) :
          list[Rank(file, signal, p)].vss_name = PathOf(file, p)

\* C14: after a load, mapper[name] returns the entries of all the signals
\* whose "dbc" names that dbc signal, one for each, in the order of the
\* file; for a name that no "dbc" names it returns an empty list and does
\* not raise.
C14_LookupNeverFails ==
    (look.op = "getitem" /\ Len(mappers) = 1)
    => /\ ~look.raised
       /\ ListedInOrder(mappers[1].file, look.name, look.list)

\* C15: after a load that completed, the registry holds one entry for each
\* signal (type sensor, actuator or attribute) that has "dbc" and lies
\* under no other signal, and no other entry; the name of the entry is the
\* names of the branches above the signal, each followed by ".", then the
\* signal's own name, so that dicts of no type or of another type add
\* nothing to it; a signal without "dbc" and whatever lies inside a signal
\* have no entry.
C15_OneEntryPerBoundLeaf ==
    (Len(mappers) = 1 /\ mappers[1].loaded)
    => /\ \A i \in 1 .. Len(mapping) :
             ListedInOrder(mappers[1].file, mapping[i].key, mapping[i].list)
       /\ \A signal \in Signals :
             LeavesOf(mappers[1].file, signal) # {} => HasKey(mapping, signal)
       /\ \A i, j \in 1 .. Len(mapping) : mapping[i].key = mapping[j].key => i = j

\* A signal inside a dict of unknown type inside a branch, registered under
\* the branch's name and its own.
C15_Witness ==
    /\ Len(mappers) = 1
    /\ mappers[1].loaded
    /\ Len(mappers[1].file.kids) = 1
    /\ mappers[1].file.kids[1].type = "branch"
    /\ Len(mappers[1].file.kids[1].kids) = 1
    /\ mappers[1].file.kids[1].kids[1].type = "struct"
    /\ Len(mappers[1].file.kids[1].kids[1].kids) = 1
    /\ HasKey(mapping, "S1")
    /\ ListOf(mapping, "S1") # << >>
    /\ ListOf(mapping, "S1")[1].vss_name = <<"A", ".", "A">>

\* C18: the registry of a Mapper holds the entries of the file this Mapper
\* loaded and no others: constructing a second Mapper adds no entry to the
\* registry of the first, and the registry of the second holds no entry of
\* the first load, with its lastupdate_s and last_raw_value.
C18_RegistryPerMapper ==
    \A m \in 1 .. Len(mappers) :
        mappers[m].loaded
        => /\ \A e \in Entries : e.owner = m
           /\ (look.op = "getitem" /\ look.mapper = m /\ ~look.raised)
              => ListedInOrder(mappers[m].file, look.name, look.list)

(***************************************************************************)
(* Property of concurrent calls, over the behaviours of SpecWorkers.       *)
(* h_last_admit holds the observation admitted before the threads started, *)
(* if any: the fields the first of two calls made in sequence would read.  *)
(***************************************************************************)
\* What two calls return and leave when made one after the other.
InSequence(first, second) ==
    LET lu0 == IF h_last_admit.set THEN h_last_admit.time ELSE 0
        lr0 == IF h_last_admit.set THEN h_last_admit.value ELSE None
        s1 == do_send(interval_ms, on_change, lu0, lr0, first.time, first.value)
        lu1 == next_lastupdate(s1, first.time, lu0)
        lr1 == next_last_raw_value(s1, first.value, lr0)
        s2 == do_send(interval_ms, on_change, lu1, lr1, second.time, second.value)
    IN  [first |-> s1, second |-> s2,
         lastupdate_s |-> next_lastupdate(s2, second.time, lu1),
         last_raw_value |-> next_last_raw_value(s2, second.value, lr1)]

\* C16: when two threads have called condition_fulfilled on one entry at the
\* same time, what the two calls returned and the lastupdate_s and
\* last_raw_value they left are those of the two calls made one after the
\* other, in one order or the other; so two calls with the same new raw
\* value on an on_change entry do not both return TRUE.
C16_CallsSerialized ==
    (\A w \in Workers : workers[w].pc = "done")
    => \E a, b \in Workers :
          /\ a # b
          /\ InSequence(workers[a], workers[b])
               = [first |-> workers[a].do_send, second |-> workers[b].do_send,
                  lastupdate_s |-> lastupdate_s, last_raw_value |-> last_raw_value]

====
